---- MODULE Spec2Model ----
(***************************************************************************)
(* State-machine model of sync.py: configuration, database connection,     *)
(* extraction of every configured table, delivery of every table to the    *)
(* API with bounded retries, summary, connection close and process exit.   *)
(***************************************************************************)
EXTENDS Integers, Sequences, FiniteSets, TLC

(* ------------------------------------------------------------------ *)
(* Bounds of the model                                                 *)
(* ------------------------------------------------------------------ *)

\* largest number of rows a query returns in the model
MaxRows == 1

\* largest number of times one value is passed through the encoder
MaxPasses == 3

(* ------------------------------------------------------------------ *)
(* Program constants                                                   *)
(* ------------------------------------------------------------------ *)

\* for retry in range(3)
MAX_ATTEMPTS == 3

\* time.sleep(5)
RETRY_DELAY == 5

\* HARD_CODED_CONFIG["sync"]["batchSize"]
BATCH_SIZE == 1000

\* HARD_CODED_CONFIG["tables"]
tables ==
  << [name |-> "rrc_clients", target_table |-> "rrc_clients"],
     [name |-> "acc_master",  target_table |-> "acc_master"],
     [name |-> "acc_product", target_table |-> "acc_product"] >>

(* ------------------------------------------------------------------ *)
(* Values and JSON encoding                                            *)
(* ------------------------------------------------------------------ *)

\* types json.dumps encodes without calling the encoder's default()
NativeTypes == {"str", "int", "float", "bool", "NoneType"}

\* a Python value: its type and its repr
Val(t, v) == [type |-> t, val |-> v]

\* float(obj) of the decimals of the model
FloatOf ==
  [d \in {"Decimal('1.10')", "Decimal('2')",
          "Decimal('0.12345678901234567890')"} |->
     CASE d = "Decimal('1.10')" -> "1.1"
       [] d = "Decimal('2')" -> "2.0"
       [] d = "Decimal('0.12345678901234567890')" -> "0.12345678901234568"]

\* obj.isoformat() of the dates and datetimes of the model
IsoFormat ==
  [d \in {"date(2024, 1, 5)", "date(1999, 12, 31)",
          "datetime(2024, 1, 5, 10, 30)", "datetime(2024, 1, 5, 0, 0)",
          "datetime(2024, 1, 5, 10, 30, 0, 500)"} |->
     CASE d = "date(2024, 1, 5)" -> "2024-01-05"
       [] d = "date(1999, 12, 31)" -> "1999-12-31"
       [] d = "datetime(2024, 1, 5, 10, 30)" -> "2024-01-05T10:30:00"
       [] d = "datetime(2024, 1, 5, 0, 0)" -> "2024-01-05T00:00:00"
       [] d = "datetime(2024, 1, 5, 10, 30, 0, 500)" ->
            "2024-01-05T10:30:00.000500"]

\* the values of the model: the column values pyodbc returns (decimals,
\* dates, datetimes, strings, integers, floats, booleans, None, and times
\* and binary values)
Values ==
  { Val("Decimal", d) : d \in DOMAIN FloatOf }
  \cup { Val("date", d) : d \in {"date(2024, 1, 5)", "date(1999, 12, 31)"} }
  \cup { Val("datetime", d) : d \in DOMAIN IsoFormat \ {"date(2024, 1, 5)",
                                                       "date(1999, 12, 31)"} }
  \cup { Val("str", x) : x \in {"", "abc", "2024-01-05", "1.1", "None",
                                "True", "b'x'", "2024-01-05T10:30:00"} }
  \cup { Val("int", x) : x \in {"0", "7", "-3", "1000"} }
  \cup { Val("float", x) : x \in {"1.1", "2.0", "0.12345678901234568"} }
  \cup { Val("bool", x) : x \in {"True", "False"} }
  \cup { Val("NoneType", "None") }
  \cup { Val("bytes", x) : x \in {"b'x'", "b''"} }
  \cup { Val("time", "time(10, 30)") }
  \cup { Val("UUID", "UUID('00000000-0000-0000-0000-000000000001')") }

\* isinstance(obj, cls): datetime is a subclass of date
isinstance(obj, cls) ==
  obj.type = cls \/ (cls = "date" /\ obj.type = "datetime")

\* DecimalEncoder.default: the replacement of obj, or the TypeError the base
\* encoder raises for a type it does not know
default(obj) ==
  IF isinstance(obj, "Decimal") THEN Val("float", FloatOf[obj.val])
  ELSE IF isinstance(obj, "date") THEN Val("str", IsoFormat[obj.val])
  ELSE IF isinstance(obj, "datetime") THEN Val("str", IsoFormat[obj.val])
  ELSE Val("TypeError", obj.type)

\* encode_value calling default() on every value, native or not
encode_value_direct(v) == default(v)

RECURSIVE encode_value(_)
\* what DecimalEncoder (a json.JSONEncoder) makes of one value: a value of a
\* native type is encoded as it is, any other value is replaced by
\* default(value), which is encoded in turn
encode_value(v) ==
  IF v.type \in NativeTypes \cup {"TypeError"} THEN v
  ELSE encode_value(default(v))

\* column values a query returns in the runs of the whole program: a
\* decimal, which the encoder converts, and a binary value, which it does
\* not know
ColumnValues == {Val("Decimal", "Decimal('1.10')"), Val("bytes", "b'x'")}

\* json.dumps(payload, cls=DecimalEncoder) over the rows of the payload:
\* "TypeError" when some value cannot be encoded, else "ok"
json_dumps(data) ==
  IF \E i \in 1..Len(data) : encode_value(data[i]).type = "TypeError"
  THEN "TypeError"
  ELSE "ok"

\* row sets a query can return: sequences of at most MaxRows rows, a row
\* being represented by one column value
RowSets == UNION { [1..n -> ColumnValues] : n \in 0..MaxRows }

\* get_table_query: the SQL text registered for a table name, "" if none
get_table_query(table_name) ==
  IF table_name \in {"rrc_clients", "acc_master", "acc_product"}
  THEN "SELECT"
  ELSE ""

(* ------------------------------------------------------------------ *)
(* Responses of the API endpoint                                       *)
(* ------------------------------------------------------------------ *)

Absent == "absent"

\* decoded response bodies: json = FALSE is a body response.json() cannot
\* decode; records_processed = -1 stands for a body without that field.
\* Fields the code does not read for a given body keep one value.
Bodies ==
  [json : {FALSE}, success : {Absent}, error : {Absent},
   records_processed : {-1}]
  \cup [json : {TRUE}, success : {"true"}, error : {Absent},
        records_processed : -1..MaxRows]
  \cup [json : {TRUE}, success : {Absent, "false"},
        error : {Absent, "bad schema"}, records_processed : {-1}]

NoBody == [json |-> FALSE, success |-> Absent, error |-> Absent,
           records_processed |-> -1]

\* what requests.post can do: raise Timeout, raise ConnectionError, or
\* return a response with a status code and a body
Results ==
  [kind : {"timeout", "connection"}, status : {0}, body : {NoBody}]
  \cup [kind : {"response"}, status : {200}, body : Bodies]
  \cup [kind : {"response"}, status : {500}, body : {NoBody}]

\* no request was made (before the first attempt, or the payload could not
\* be serialized)
NoResult == [kind |-> "none", status |-> 0, body |-> NoBody]

\* Python truthiness of response_data.get('success', False)
Truthy(v) == v = "true"

(* ------------------------------------------------------------------ *)
(* One attempt of sync_table_to_api                                    *)
(* ------------------------------------------------------------------ *)

\* the endpoint answers the request with HTTP 200 and "success": true
endpoint_accepts(r) ==
  r.kind = "response" /\ r.status = 200 /\ r.body.json /\ r.body.success = "true"

\* requests.post is reached only when json.dumps did not raise
request_sent(data) == json_dumps(data) # "TypeError"

\* is_success with the body's success field not consulted
is_success_status_only(r) ==
  /\ r.kind = "response"
  /\ r.status = 200
  /\ r.body.json

\* the attempt sets success = True
is_success(r) ==
  /\ r.kind = "response"
  /\ r.status = 200
  /\ r.body.json
  /\ Truthy(r.body.success)

\* the branch of the loop body an attempt ends in
branch(r, data) ==
  IF ~request_sent(data) THEN "exception"
  ELSE IF r.kind = "timeout" THEN "timeout"
  ELSE IF r.kind = "connection" THEN "connection"
  ELSE IF r.status = 200
       THEN IF ~r.body.json THEN "exception"
            ELSE IF is_success(r) THEN "success"
            ELSE "api_error"
  ELSE "http_error"

\* error_text with the Timeout handler not assigning error_msg
error_text_stale(b, r, prev) ==
  CASE b = "success"    -> prev
    [] b = "api_error"  -> IF r.body.error = Absent THEN "Unknown error"
                           ELSE r.body.error
    [] b = "http_error" -> "HTTP Error 500"
    [] b = "timeout"    -> prev
    [] b = "connection" -> "Connection error"
    [] b = "exception"  -> "Unexpected error"

\* the value of error_msg after the attempt (prev: its value before)
error_text(b, r, prev) ==
  CASE b = "success"    -> prev
    [] b = "api_error"  -> IF r.body.error = Absent THEN "Unknown error"
                           ELSE r.body.error
    [] b = "http_error" -> "HTTP Error 500"
    [] b = "timeout"    -> "Timeout error"
    [] b = "connection" -> "Connection error"
    [] b = "exception"  -> "Unexpected error"

\* the value of records_processed after the attempt (prev: its value before)
records_text(b, r, data, prev) ==
  IF b = "success"
  THEN IF r.body.records_processed = -1 THEN Len(data)
       ELSE r.body.records_processed
  ELSE prev

\* sleep_after with the Timeout handler sleeping after the last attempt too
sleep_after_always(b, retry) ==
  CASE b = "success"                     -> 0
    [] b \in {"api_error", "http_error"} -> IF retry < 2 THEN RETRY_DELAY ELSE 0
    [] b = "timeout"                     -> RETRY_DELAY
    [] b = "connection"                  -> IF retry < 2 THEN RETRY_DELAY ELSE 0
    [] b = "exception"                   -> IF retry < 2 THEN RETRY_DELAY ELSE 0

\* seconds slept at the end of the attempt (0: no sleep)
sleep_after(b, retry) ==
  CASE b = "success"                     -> 0
    [] b \in {"api_error", "http_error"} -> IF retry < 2 THEN RETRY_DELAY ELSE 0
    [] b = "timeout"                     -> IF retry < 2 THEN RETRY_DELAY ELSE 0
    [] b = "connection"                  -> IF retry < 2 THEN RETRY_DELAY ELSE 0
    [] b = "exception"                   -> IF retry < 2 THEN RETRY_DELAY ELSE 0

\* loop_continues with a loop that ends only on success (while not success)
loop_continues_until_success(ok, retry) == ~ok

\* the for loop runs another iteration after iteration `retry`
loop_continues(ok, retry) == ~ok /\ retry + 1 < MAX_ATTEMPTS

(* ------------------------------------------------------------------ *)
(* State                                                               *)
(* ------------------------------------------------------------------ *)

VARIABLES
  norm_input,           \* a value handed to the encoder
  norm_value,           \* what the encoder made of it so far
  norm_passes,          \* how many times it went through the encoder
  config_file,          \* the contents of config.json
  config,               \* the configuration load_config returned
  connect_calls,        \* calls of pyodbc.connect
  cursor,               \* the cursor of the latest execute_query
  sent_payload,         \* body of the latest request of this call
  accepted_by_api,             \* tables the endpoint answered 200 / success for
  pc,                   \* position of main()
  conn,                 \* the database connection: "none", "open", "closed"
  fetch_idx,            \* position of the loop of fetch_all_data
  all_data,             \* fetch_all_data's dict, in insertion order
  total_records,        \* fetch_all_data's total_records
  query_failed,         \* tables whose query raised pyodbc.Error
  sync_idx,             \* position of the loop of sync_all_data_to_api
  retry,                \* sync_table_to_api: loop variable
  success,              \* sync_table_to_api: success
  error_msg,            \* sync_table_to_api: error_msg
  records_processed,    \* sync_table_to_api: records_processed
  result,               \* sync_table_to_api: value returned
  attempts,             \* iterations of the retry loop in this call
  requests,             \* calls of requests.post in this call
  sleeps,               \* durations of the time.sleep calls in this call
  last_result,          \* what the latest requests.post did
  success_count,        \* sync_all_data_to_api: success_count
  total_tables,         \* sync_all_data_to_api: total_tables
  total_records_synced, \* sync_all_data_to_api: total_records_synced
  outcomes,             \* per table: what sync_table_to_api returned and logged
  run_success,          \* value returned by sync_all_data_to_api
  exit_code,            \* status passed to sys.exit, -1 while running
  exit_reason,          \* which path of main() ended the process
  trace                 \* extractions and deliveries in the order they ran

vars == << norm_input, norm_value, norm_passes, config_file, config, connect_calls, cursor, sent_payload,
           accepted_by_api, pc, conn, fetch_idx, all_data, total_records, query_failed,
           sync_idx, retry, success, error_msg, records_processed, result,
           attempts, requests, sleeps, last_result, success_count,
           total_tables, total_records_synced, outcomes, run_success,
           exit_code, exit_reason, trace >>

norm_vars == << norm_input, norm_value, norm_passes >>

config_vars == << config_file, config >>

fetch_vars == << fetch_idx, all_data, total_records, query_failed, cursor >>

call_vars == << retry, success, error_msg, records_processed, result,
                attempts, requests, sleeps, last_result, sent_payload >>

loop_vars == << sync_idx, success_count, total_tables,
                total_records_synced, outcomes >>

\* keys of config.json other than database.dsn and api.url
ExtraKeys == {"database.username", "database.password", "tables",
              "target_database", "sync.batchSize"}

\* contents of config.json as load_config sees them: whether the file
\* exists and parses, whether it has the database and api objects, their
\* dsn and url (Absent: no such key), and which other keys it holds
ConfigFiles ==
  { f \in [exists : BOOLEAN, json : BOOLEAN, database : BOOLEAN,
           dsn : {Absent, "dsnA", "dsnB"}, api : BOOLEAN,
           url : {Absent, "urlA", "urlB"}, extra : SUBSET ExtraKeys] :
      /\ ~f.exists => ~f.json
      /\ ~f.json => (~f.database /\ ~f.api /\ f.extra = {})
      /\ ~f.database =>
           (f.dsn = Absent
            /\ f.extra \cap {"database.username", "database.password"} = {})
      /\ ~f.api => f.url = Absent }

\* the files the runs of the whole program start from: no file, a file that
\* is not JSON, files without the dsn or the url, and a file with both and
\* with every other key
RunConfigFiles ==
  { f \in ConfigFiles :
      \/ ~f.json
      \/ /\ f.database /\ f.api /\ f.extra = ExtraKeys
         /\ << f.dsn, f.url >> \in
              { << "dsnA", "urlA" >>, << Absent, "urlA" >>, << "dsnA", Absent >> } }

\* the values config.json gives its other keys
UserConfig ==
  [tables |-> << [name |-> "other", target_table |-> "other"] >>,
   target_database |-> "other_db",
   batchSize |-> 1,
   username |-> "root",
   password |-> "other_pw"]

\* HARD_CODED_CONFIG
HARD_CODED_CONFIG ==
  [tables |-> tables,
   target_database |-> "detector_test_db",
   batchSize |-> BATCH_SIZE,
   username |-> "DBA",
   password |-> "(*$^)"]

\* no configuration loaded yet
NoConfig ==
  [tables |-> << >>, target_database |-> "none", batchSize |-> 0,
   username |-> "none", password |-> "none", dsn |-> "none", url |-> "none"]

\* config_error without the check of api.url
config_error_no_url(f) ==
  IF ~f.exists THEN "FileNotFoundError"
  ELSE IF ~f.json THEN "JSONDecodeError"
  ELSE IF ~(f.database /\ f.dsn # Absent) THEN "KeyError"
  ELSE "none"

\* load_config: the exception that ends the process, "none" if there is none
config_error(f) ==
  IF ~f.exists THEN "FileNotFoundError"
  ELSE IF ~f.json THEN "JSONDecodeError"
  ELSE IF ~(f.database /\ f.dsn # Absent) THEN "KeyError"
  ELSE IF ~(f.api /\ f.url # Absent) THEN "KeyError"
  ELSE "none"

\* merge_config taking every key of the file (config.update(user_config))
merge_config_update(f) ==
  [tables |-> IF "tables" \in f.extra THEN UserConfig.tables
              ELSE HARD_CODED_CONFIG.tables,
   target_database |-> IF "target_database" \in f.extra
                       THEN UserConfig.target_database
                       ELSE HARD_CODED_CONFIG.target_database,
   batchSize |-> IF "sync.batchSize" \in f.extra THEN UserConfig.batchSize
                 ELSE HARD_CODED_CONFIG.batchSize,
   username |-> IF "database.username" \in f.extra THEN UserConfig.username
                ELSE HARD_CODED_CONFIG.username,
   password |-> IF "database.password" \in f.extra THEN UserConfig.password
                ELSE HARD_CODED_CONFIG.password,
   dsn |-> f.dsn,
   url |-> f.url]

\* load_config: the copy of HARD_CODED_CONFIG with the file's dsn and url
merge_config(f) ==
  [tables |-> HARD_CODED_CONFIG.tables,
   target_database |-> HARD_CODED_CONFIG.target_database,
   batchSize |-> HARD_CODED_CONFIG.batchSize,
   username |-> HARD_CODED_CONFIG.username,
   password |-> HARD_CODED_CONFIG.password,
   dsn |-> f.dsn,
   url |-> f.url]

\* the body of a request: payload = {"table": ..., "data": ...}
Payload(table_name, data) == [table |-> table_name, data |-> data]

\* no request sent yet
NoPayload == [table |-> "none", data |-> << >>]

\* what a query does: raise pyodbc.Error, or return rows
QueryResults ==
  [error : {TRUE}, rows : {<< >>}] \cup [error : {FALSE}, rows : RowSets]

\* all_data[key] = value on a dict kept in insertion order
dict_set(d, key, value) ==
  IF \E i \in 1..Len(d) : d[i].key = key
  THEN [i \in 1..Len(d) |->
          IF d[i].key = key THEN [key |-> key, value |-> value] ELSE d[i]]
  ELSE Append(d, [key |-> key, value |-> value])

\* item_at iterating the dict from its last pair to its first
item_at_reversed(d, i) == d[Len(d) + 1 - i]

\* the i-th pair of all_data.items()
item_at(d, i) == d[i]

\* execute_query_partial returning a row although the query raised
execute_query_partial(q) ==
  IF q.error THEN << Val("Decimal", "Decimal('1.10')") >> ELSE q.rows

\* execute_query: the rows, or [] when the query raised pyodbc.Error
execute_query(q) == IF q.error THEN << >> ELSE q.rows

\* execute_query: the state its cursor is left in; cursor.close() is
\* reached only when nothing raised before it
cursor_close(q) == IF q.error THEN "open" ELSE "closed"

\* the state of the cursor after fetch_data_from_table: no cursor is made
\* when no query is defined for the table
cursor_after(table_name, q) ==
  IF get_table_query(table_name) = "" THEN "none" ELSE cursor_close(q)

\* fetch_data_from_table: [] when no query is defined for the table
fetch_data_from_table(table_name, q) ==
  IF get_table_query(table_name) = "" THEN << >> ELSE execute_query(q)

\* no_data testing `data is None`, which no extraction produces
no_data_none(data) == FALSE

\* `if not data` of sync_table_to_api
no_data(data) == Len(data) = 0

\* next_after_table leaving the loop at the first failed table
next_after_table_abort(ok, idx, n) ==
  IF ok /\ idx < n THEN "sync_table" ELSE "summary"

\* where the loop of sync_all_data_to_api goes after the table at idx
next_after_table(ok, idx, n) == IF idx < n THEN "sync_table" ELSE "summary"

\* count_success counting every table
count_success_always(count, ok) == count + 1

\* success_count after a table whose sync returned ok
count_success(count, ok) == IF ok THEN count + 1 ELSE count

\* all_succeeded satisfied by one successful table
all_succeeded_any(count, total) == count > 0

\* `if success_count == total_tables` of sync_all_data_to_api
all_succeeded(count, total) == count = total

\* the number of failed tables the summary prints
tables_failed(total, count) == total - count

\* exit_status with sys.exit(0) on both paths
exit_status_zero(ok) == 0

\* the status main() passes to sys.exit after the sync
exit_status(ok) == IF ok THEN 0 ELSE 1

(* ------------------------------------------------------------------ *)
(* Initial state                                                       *)
(* ------------------------------------------------------------------ *)

InitState ==
  /\ norm_passes = 0
  /\ config = NoConfig
  /\ connect_calls = 0
  /\ cursor = "none"
  /\ sent_payload = NoPayload
  /\ accepted_by_api = {}
  /\ pc = "load_config"
  /\ conn = "none"
  /\ fetch_idx = 1
  /\ all_data = << >>
  /\ total_records = 0
  /\ query_failed = {}
  /\ sync_idx = 1
  /\ retry = 0
  /\ success = FALSE
  /\ error_msg = "none"
  /\ records_processed = 0
  /\ result = "none"
  /\ attempts = 0
  /\ requests = 0
  /\ sleeps = << >>
  /\ last_result = NoResult
  /\ success_count = 0
  /\ total_tables = 0
  /\ total_records_synced = 0
  /\ outcomes = << >>
  /\ run_success = FALSE
  /\ exit_code = -1
  /\ exit_reason = "none"
  /\ trace = << >>

\* nothing handed to the encoder
NoValue == Val("NoneType", "None")

Init ==
  /\ InitState
  /\ config_file \in RunConfigFiles
  /\ norm_input = NoValue
  /\ norm_value = NoValue

(* ------------------------------------------------------------------ *)
(* Actions                                                             *)
(* ------------------------------------------------------------------ *)

\* load_config: a missing or malformed file or a missing dsn / url ends the
\* process with sys.exit(1)
LoadConfig ==
  /\ pc = "load_config"
  /\ IF config_error(config_file) = "none"
     THEN /\ config' = merge_config(config_file)
          /\ pc' = "connect"
          /\ UNCHANGED << exit_code, exit_reason >>
     ELSE /\ pc' = "exit"
          /\ exit_code' = 1
          /\ exit_reason' = "config"
          /\ UNCHANGED config
  /\ UNCHANGED << norm_vars, config_file, connect_calls, accepted_by_api, conn, fetch_vars,
                  call_vars, loop_vars, run_success, trace >>

\* connect_to_database: pyodbc.connect returns a connection, or raises
\* pyodbc.Error and the process ends with sys.exit(1)
ConnectToDatabase ==
  /\ pc = "connect"
  /\ \E ok \in BOOLEAN :
       IF ok
       THEN /\ pc' = "fetch"
            /\ conn' = "open"
            /\ UNCHANGED << exit_code, exit_reason >>
       ELSE /\ pc' = "exit"
            /\ exit_code' = 1
            /\ exit_reason' = "connect"
            /\ UNCHANGED conn
  /\ connect_calls' = connect_calls + 1
  /\ UNCHANGED << norm_vars, config_vars, accepted_by_api, fetch_vars, call_vars, loop_vars,
                  run_success, trace >>

\* one iteration of the loop of fetch_all_data: fetch_data_from_table for
\* the table at fetch_idx, stored under its target_table
FetchTable ==
  /\ pc = "fetch"
  /\ fetch_idx <= Len(config.tables)
  /\ \E q \in QueryResults :
       LET table_name == config.tables[fetch_idx].name
           target_table == config.tables[fetch_idx].target_table
           data == fetch_data_from_table(table_name, q)
       IN  /\ all_data' = dict_set(all_data, target_table, data)
           /\ total_records' = total_records + Len(data)
           /\ query_failed' = IF q.error THEN query_failed \cup {table_name}
                              ELSE query_failed
           /\ cursor' = cursor_after(table_name, q)
           /\ trace' = Append(trace, << "extract", table_name >>)
  /\ fetch_idx' = fetch_idx + 1
  /\ pc' = IF fetch_idx < Len(config.tables) THEN "fetch" ELSE "sync_all"
  /\ UNCHANGED << norm_vars, config_vars, connect_calls, accepted_by_api, conn, call_vars,
                  loop_vars, run_success, exit_code, exit_reason >>

\* sync_all_data_to_api up to its loop
SyncAllStart ==
  /\ pc = "sync_all"
  /\ success_count' = 0
  /\ total_tables' = Len(all_data)
  /\ total_records_synced' = 0
  /\ sync_idx' = 1
  /\ pc' = IF Len(all_data) = 0 THEN "summary" ELSE "sync_table"
  /\ UNCHANGED << norm_vars, config_vars, connect_calls, accepted_by_api, conn, fetch_vars,
                  call_vars, outcomes, run_success, exit_code, exit_reason,
                  trace >>

\* sync_table_to_api up to its retry loop: an empty table returns True
SyncTableEnter ==
  /\ pc = "sync_table"
  /\ LET item == item_at(all_data, sync_idx)
     IN  /\ trace' = Append(trace, << "sync", item.key >>)
         /\ IF no_data(item.value)
            THEN /\ result' = "True"
                 /\ pc' = "returned"
            ELSE /\ result' = "none"
                 /\ pc' = "attempt"
  /\ UNCHANGED << retry, success, error_msg, records_processed, attempts,
                  requests, sleeps, last_result, sent_payload >>
  /\ UNCHANGED << norm_vars, config_vars, connect_calls, accepted_by_api, conn, fetch_vars,
                  loop_vars, run_success, exit_code, exit_reason >>

\* one iteration of the retry loop of sync_table_to_api, and the return
\* that follows the loop when this iteration is its last
Attempt ==
  /\ pc = "attempt"
  /\ \E r \in Results :
       LET table_name == item_at(all_data, sync_idx).key
           data == item_at(all_data, sync_idx).value
           b == branch(r, data)
           ok == b = "success"
           d == sleep_after(b, retry)
       IN  /\ attempts' = attempts + 1
           /\ requests' = IF request_sent(data) THEN requests + 1 ELSE requests
           /\ last_result' = IF request_sent(data) THEN r ELSE NoResult
           /\ sent_payload' = IF request_sent(data)
                              THEN Payload(table_name, data)
                              ELSE sent_payload
           /\ accepted_by_api' = IF request_sent(data) /\ endpoint_accepts(r)
                          THEN accepted_by_api \cup {table_name}
                          ELSE accepted_by_api
           /\ success' = ok
           /\ error_msg' = error_text(b, r, error_msg)
           /\ records_processed' = records_text(b, r, data, records_processed)
           /\ sleeps' = IF d > 0 THEN Append(sleeps, d) ELSE sleeps
           /\ IF loop_continues(ok, retry)
              THEN /\ retry' = retry + 1
                   /\ pc' = "attempt"
                   /\ UNCHANGED result
              ELSE /\ pc' = "returned"
                   /\ result' = IF ok THEN "True" ELSE "False"
                   /\ UNCHANGED retry
  /\ UNCHANGED << norm_vars, config_vars, connect_calls, conn, fetch_vars, loop_vars,
                  run_success, exit_code, exit_reason, trace >>

\* the rest of an iteration of the loop of sync_all_data_to_api, after
\* sync_table_to_api has returned (its locals are gone)
RecordOutcome ==
  /\ pc = "returned"
  /\ LET item == item_at(all_data, sync_idx)
         ok == result = "True"
     IN  /\ success_count' = count_success(success_count, ok)
         /\ total_records_synced' =
              IF ok THEN total_records_synced + Len(item.value)
              ELSE total_records_synced
         /\ outcomes' = Append(outcomes,
              [table |-> item.key, success |-> ok,
               records_processed |-> IF ok THEN records_processed ELSE 0])
         /\ pc' = next_after_table(ok, sync_idx, Len(all_data))
  /\ sync_idx' = sync_idx + 1
  /\ retry' = 0
  /\ success' = FALSE
  /\ error_msg' = "none"
  /\ records_processed' = 0
  /\ result' = "none"
  /\ attempts' = 0
  /\ requests' = 0
  /\ sleeps' = << >>
  /\ last_result' = NoResult
  /\ sent_payload' = NoPayload
  /\ UNCHANGED << norm_vars, config_vars, connect_calls, accepted_by_api, conn, fetch_vars,
                  total_tables, run_success, exit_code, exit_reason, trace >>

\* the summary of sync_all_data_to_api and its return value
Summary ==
  /\ pc = "summary"
  /\ run_success' = all_succeeded(success_count, total_tables)
  /\ pc' = "close"
  /\ UNCHANGED << norm_vars, config_vars, connect_calls, accepted_by_api, conn, fetch_vars,
                  call_vars, loop_vars, exit_code, exit_reason, trace >>

\* conn.close() in main
CloseConnection ==
  /\ pc = "close"
  /\ conn' = "closed"
  /\ pc' = "report"
  /\ UNCHANGED << norm_vars, config_vars, connect_calls, accepted_by_api, fetch_vars, call_vars,
                  loop_vars, run_success, exit_code, exit_reason, trace >>

\* the final report of main and sys.exit
ReportAndExit ==
  /\ pc = "report"
  /\ exit_code' = exit_status(run_success)
  /\ exit_reason' = IF run_success THEN "success" ELSE "failure"
  /\ pc' = "exit"
  /\ UNCHANGED << norm_vars, config_vars, connect_calls, accepted_by_api, conn, fetch_vars,
                  call_vars, loop_vars, run_success, trace >>

\* Ctrl-C while main runs: `except KeyboardInterrupt` ends with sys.exit(1)
KeyboardInterrupt ==
  /\ pc # "exit"
  /\ pc' = "exit"
  /\ exit_code' = 1
  /\ exit_reason' = "interrupt"
  /\ UNCHANGED << norm_vars, config_vars, connect_calls, accepted_by_api, conn, fetch_vars,
                  call_vars, loop_vars, run_success, trace >>

\* an exception other than pyodbc.Error raised while extracting (before or
\* after a cursor was made, which then stays open), or raised by
\* conn.close(): `except Exception` of main ends with sys.exit(1)
UnexpectedError ==
  /\ pc \in {"fetch", "close"}
  /\ pc' = "exit"
  /\ exit_code' = 1
  /\ exit_reason' = "exception"
  /\ cursor' \in {cursor, IF pc = "fetch" THEN "open" ELSE cursor}
  /\ UNCHANGED << norm_vars, config_vars, connect_calls, accepted_by_api, conn, fetch_idx,
                  all_data, total_records, query_failed, call_vars, loop_vars,
                  run_success, trace >>

Next ==
  \/ LoadConfig
  \/ ConnectToDatabase
  \/ FetchTable
  \/ SyncAllStart
  \/ SyncTableEnter
  \/ Attempt
  \/ RecordOutcome
  \/ Summary
  \/ CloseConnection
  \/ ReportAndExit
  \/ KeyboardInterrupt
  \/ UnexpectedError

Spec == Init /\ [][Next]_vars

\* the runs in which nobody interrupts the process and nothing raises an
\* exception the code does not handle: every step of main() is followed by
\* its next step
NextRun ==
  \/ LoadConfig
  \/ ConnectToDatabase
  \/ FetchTable
  \/ SyncAllStart
  \/ SyncTableEnter
  \/ Attempt
  \/ RecordOutcome
  \/ Summary
  \/ CloseConnection
  \/ ReportAndExit

SpecRun == Init /\ [][NextRun]_vars /\ WF_vars(NextRun)

\* load_config alone, applied to every content of config.json
InitConfig ==
  /\ InitState
  /\ config_file \in ConfigFiles
  /\ norm_input = NoValue
  /\ norm_value = NoValue

NextConfig == LoadConfig

SpecConfig == InitConfig /\ [][NextConfig]_vars

\* the encoder alone, applied again and again to every value of the model
InitNormalize ==
  /\ InitState
  /\ config_file \in { f \in ConfigFiles : ~f.exists }
  /\ norm_input \in Values
  /\ norm_value = norm_input

\* one pass of a value through the encoder; a TypeError ends the passes
Normalize ==
  /\ norm_passes < MaxPasses
  /\ norm_value.type # "TypeError"
  /\ norm_value' = encode_value(norm_value)
  /\ norm_passes' = norm_passes + 1
  /\ UNCHANGED << norm_input, config_vars, connect_calls, accepted_by_api,
                  pc, conn, fetch_vars, call_vars, loop_vars, run_success,
                  exit_code, exit_reason, trace >>

NextNormalize == Normalize

SpecNormalize == InitNormalize /\ [][NextNormalize]_vars

(* ------------------------------------------------------------------ *)
(* Properties                                                          *)
(* ------------------------------------------------------------------ *)

\* the rows of the table sync_table_to_api is running for
current_data == item_at(all_data, sync_idx).value

\* C1: for a table with rows, sync_table_to_api sends at most 3 requests;
\* it returns failure only after exactly 3 requests, and it returns success
\* after exactly k requests when attempt k is the first successful one.
C1_RequestsPerTable ==
  (pc = "returned" /\ Len(current_data) > 0) =>
     /\ requests <= 3
     /\ result = "False" => requests = 3
     /\ result = "True" => (requests = attempts /\ is_success(last_result))

\* C2: an attempt is successful exactly when the response has status 200
\* and a decoded body whose success field is truthy; every other attempt is
\* a failed one and is followed by another attempt unless it was the third.
C2_AttemptClassification ==
  [][(pc = "attempt" /\ attempts' = attempts + 1) =>
       LET r == last_result'
           accepted == /\ r.kind = "response"
                       /\ r.status = 200
                       /\ r.body.json
                       /\ r.body.success = "true"
       IN  /\ success' <=> accepted
           /\ accepted => (pc' = "returned" /\ result' = "True")
           /\ (~accepted /\ attempts' < 3) =>
                (pc' = "attempt" /\ retry' = retry + 1 /\ result' = "none")
           /\ (~accepted /\ attempts' = 3) =>
                (pc' = "returned" /\ result' = "False")]_vars

\* a failed attempt of every kind of exception is followed by a retry
C2_Witness ==
  /\ pc = "attempt"
  /\ attempts = 2
  /\ error_msg = "Unexpected error"
  /\ last_result.kind = "response"
  /\ last_result.status = 200
  /\ ~last_result.body.json

\* C3: an attempt is followed by one 5-second sleep exactly when it failed
\* and another attempt follows; a call that made n attempts slept n-1 times.
C3_DelayBetweenAttempts ==
  [][(pc = "attempt" /\ attempts' = attempts + 1) =>
       /\ sleeps' = IF ~success' /\ pc' = "attempt"
                    THEN Append(sleeps, 5)
                    ELSE sleeps
       /\ pc' = "returned" =>
            (Len(sleeps') = attempts' - 1
             /\ \A i \in 1..Len(sleeps') : sleeps'[i] = 5)]_vars

\* three timeouts: two sleeps of 5 seconds, none after the last attempt
C3_Witness ==
  /\ pc = "returned"
  /\ result = "False"
  /\ attempts = 3
  /\ last_result.kind = "timeout"
  /\ sleeps = << 5, 5 >>

\* C4: for a table without rows sync_table_to_api returns success with
\* zero records processed and never reaches an attempt or a request.
C4_EmptyTable ==
  /\ pc = "attempt" => Len(current_data) > 0
  /\ (pc = "returned" /\ Len(current_data) = 0) =>
       /\ result = "True"
       /\ attempts = 0
       /\ requests = 0
       /\ records_processed = 0

C4_Witness ==
  /\ pc = "returned"
  /\ Len(current_data) = 0
  /\ result = "True"
  /\ item_at(all_data, sync_idx).key \notin query_failed

Range(f) == { f[i] : i \in DOMAIN f }

\* every configured table was extracted and handed to sync_table_to_api,
\* and has a recorded outcome
AllProcessed ==
  /\ Len(outcomes) = Len(tables)
  /\ \A i \in 1..Len(tables) :
       /\ << "extract", tables[i].name >> \in Range(trace)
       /\ << "sync", tables[i].target_table >> \in Range(trace)

AllOutcomesSucceeded ==
  /\ Len(outcomes) = Len(tables)
  /\ \A i \in 1..Len(outcomes) : outcomes[i].success

\* C6: the run is reported successful exactly when every configured table
\* succeeded, and the exit code is 0 exactly when every table succeeded and
\* the run ended neither in a configuration error, a connection error, an
\* exception nor a keyboard interruption; otherwise it is 1.
C6_ExitCode ==
  /\ pc \in {"close", "report"} => (run_success <=> AllOutcomesSucceeded)
  /\ pc = "exit" =>
       /\ exit_code \in {0, 1}
       /\ exit_code = 0 <=>
            /\ AllOutcomesSucceeded
            /\ exit_reason \notin {"config", "connect", "interrupt", "exception"}

\* a partial failure: two tables succeeded, one failed, exit code 1
C6_Witness ==
  /\ pc = "exit"
  /\ exit_reason = "failure"
  /\ exit_code = 1
  /\ success_count = 2
  /\ Len(outcomes) = 3

\* C7: in the summary tablesSucceeded + tablesFailed = tablesTotal,
\* tablesTotal is the number of configured tables, and tablesSucceeded is
\* the number of tables whose sync returned success.
C7_SummaryCounts ==
  pc \in {"summary", "close", "report"} =>
    /\ total_tables = Len(tables)
    /\ success_count =
         Cardinality({ i \in 1..Len(outcomes) : outcomes[i].success })
    /\ success_count + tables_failed(total_tables, success_count) = total_tables
    /\ tables_failed(total_tables, success_count) =
         Cardinality({ i \in 1..Len(outcomes) : ~outcomes[i].success })

C7_Witness ==
  /\ pc = "summary"
  /\ success_count = 1
  /\ tables_failed(total_tables, success_count) = 2
  /\ outcomes[2].success

RECURSIVE SumProcessed(_)
\* sum of records_processed over the successful outcomes
SumProcessed(os) ==
  IF os = << >> THEN 0
  ELSE (IF os[1].success THEN os[1].records_processed ELSE 0)
       + SumProcessed(Tail(os))

\* C8: the summary's total of records synced is the sum, over the tables
\* that succeeded, of the response's records_processed when present and of
\* the number of rows sent otherwise.
C8_TotalIsSumProcessed ==
  pc = "summary" => total_records_synced = SumProcessed(outcomes)

\* C9 as stated: a table's outcome is recorded before the
\* next table is extracted
C9_Interleaved ==
  \A i \in 1..(Len(tables) - 1) :
    << "extract", tables[i + 1].name >> \in Range(trace) => Len(outcomes) >= i

\* every extraction in configured order, then every delivery in that order
ExpectedOrder ==
  [i \in 1..Len(tables) |-> << "extract", tables[i].name >>]
  \o [i \in 1..Len(tables) |-> << "sync", tables[i].target_table >>]

\* C9 (amended): operations run one at a time, in two passes: every table is
\* extracted in configured order, then every table is synced in that order,
\* and a table's outcome is recorded before the next table's sync begins.
C9_TwoPasses ==
  /\ Len(trace) <= Len(ExpectedOrder)
  /\ trace = SubSeq(ExpectedOrder, 1, Len(trace))
  /\ Len(trace) > Len(tables) =>
       /\ Len(outcomes) >= Len(trace) - Len(tables) - 1
       /\ Len(outcomes) <= Len(trace) - Len(tables)
  /\ Len(trace) <= Len(tables) => outcomes = << >>

\* the second table is being delivered after all three were extracted
C9_Witness ==
  /\ pc = "attempt"
  /\ Len(trace) = 5
  /\ Len(outcomes) = 1

\* the failure reason of the latest attempt, from what the request did
LastReason ==
  CASE last_result.kind = "none"       -> "Unexpected error"
    [] last_result.kind = "timeout"    -> "Timeout error"
    [] last_result.kind = "connection" -> "Connection error"
    [] last_result.kind = "response" ->
         IF last_result.status # 200 THEN "HTTP Error 500"
         ELSE IF ~last_result.body.json THEN "Unexpected error"
         ELSE IF last_result.body.error = Absent THEN "Unknown error"
         ELSE last_result.body.error

\* C10: when sync_table_to_api returns failure it has made 3 attempts and
\* its error message is the failure reason of the last attempt.
C10_LastErrorReported ==
  (pc = "returned" /\ result = "False") =>
     /\ attempts = 3
     /\ error_msg = LastReason

\* the third attempt answered 200 with success false and error "bad schema"
C10_Witness ==
  /\ pc = "returned"
  /\ result = "False"
  /\ attempts = 3
  /\ last_result.status = 200
  /\ last_result.body.success = "false"
  /\ error_msg = "bad schema"

\* config.json exists, is JSON and holds database.dsn and api.url
FileValid(f) ==
  /\ f.exists /\ f.json
  /\ f.database /\ f.dsn # Absent
  /\ f.api /\ f.url # Absent

\* no database connection, query or request has been made
NothingStarted ==
  /\ conn = "none"
  /\ cursor = "none"
  /\ trace = << >>
  /\ all_data = << >>
  /\ sent_payload = NoPayload
  /\ accepted_by_api = {}

\* C11: with a missing or malformed config file, or one without
\* database.dsn or api.url, the process ends with status 1 before any
\* database connection, query or request; with a failed database connection
\* it ends with status 1 before any query or request.
C11_PreflightFatal ==
  /\ ~FileValid(config_file) =>
       /\ pc \in {"load_config", "exit"}
       /\ connect_calls = 0
       /\ NothingStarted
       /\ pc = "exit" => (exit_code = 1 /\ exit_reason \in {"config", "interrupt"})
  /\ exit_reason = "connect" =>
       /\ pc = "exit"
       /\ exit_code = 1
       /\ connect_calls = 1
       /\ NothingStarted

\* a file without api.url ended the process in load_config
C11_Witness ==
  /\ pc = "exit"
  /\ exit_reason = "config"
  /\ config_file.json
  /\ config_file.dsn = "dsnA"
  /\ config_file.url = Absent
  /\ NothingStarted

\* C13: the configuration load_config returns takes the dsn and the url from
\* the file and everything else (tables, target database, credentials,
\* batch size) from the built-in values, whatever other keys the file holds.
C13_OnlyDsnAndUrl ==
  pc = "connect" =>
    /\ config.dsn = config_file.dsn
    /\ config.url = config_file.url
    /\ config.tables = tables
    /\ config.target_database = "detector_test_db"
    /\ config.batchSize = 1000
    /\ config.username = "DBA"
    /\ config.password = "(*$^)"

\* a file that also gives credentials, tables, a database and a batch size
C13_Witness ==
  /\ pc = "connect"
  /\ config_file.extra = ExtraKeys
  /\ config_file.dsn = "dsnB"
  /\ config.dsn = "dsnB"
  /\ config.username = "DBA"

\* C12: the database connection is opened at most once and is closed when
\* the process exits, on every exit path after it was opened.
C12_ClosedOnExit ==
  /\ connect_calls <= 1
  /\ pc = "exit" => conn # "open"

\* C14: serializing a table's rows never raises, for any column value a
\* query returns, so no delivery fails without a request having been sent.
C14_SerializationNeverFails ==
  /\ \A i \in 1..Len(all_data) : json_dumps(all_data[i].value) # "TypeError"
  /\ (pc = "returned" /\ result = "False") => requests > 0

\* C16: whenever execute_query has returned or raised, its cursor is closed.
C16_CursorClosed == cursor # "open"

\* C17: a table whose query raised (or that has no query) has an empty row
\* set, is synced without any attempt or request, and counts as succeeded.
C17_FailedQueryCountsAsSuccess ==
  /\ \A q \in QueryResults : fetch_data_from_table("unregistered", q) = << >>
  /\ \A i \in 1..Len(all_data) :
       all_data[i].key \in query_failed => all_data[i].value = << >>
  /\ (pc \in {"attempt", "returned"}
      /\ item_at(all_data, sync_idx).key \in query_failed) =>
       /\ pc = "returned"
       /\ result = "True"
       /\ attempts = 0
       /\ requests = 0
  /\ \A i \in 1..Len(outcomes) :
       outcomes[i].table \in query_failed => outcomes[i].success

\* the first table's query raised, the second table was delivered, and the
\* run ended as a full success with exit code 0
C17_Witness ==
  /\ pc = "exit"
  /\ exit_code = 0
  /\ exit_reason = "success"
  /\ "rrc_clients" \in query_failed
  /\ success_count = 3
  /\ "acc_master" \in accepted_by_api

\* C18: every attempt sends exactly one request, whose body holds the
\* table's target name and its complete row set.
C18_OneFullRequestPerAttempt ==
  [][(pc = "attempt" /\ attempts' = attempts + 1) =>
       /\ requests' = requests + 1
       /\ sent_payload' = [table |-> item_at(all_data, sync_idx).key,
                           data |-> item_at(all_data, sync_idx).value]]_vars

\* C20: a table is counted as succeeded only if it has no rows or the
\* endpoint answered one of its attempts with 200 and a truthy success, and
\* the exit code is 0 only if every configured table with rows was accepted.
C20_SuccessIsSound ==
  /\ (pc = "returned" /\ result = "True") =>
       \/ current_data = << >>
       \/ item_at(all_data, sync_idx).key \in accepted_by_api
  /\ \A i \in 1..Len(outcomes) :
       outcomes[i].success =>
         \/ all_data[i].value = << >>
         \/ outcomes[i].table \in accepted_by_api
  /\ exit_code = 0 =>
       /\ Len(all_data) = Len(tables)
       /\ \A i \in 1..Len(tables) :
            /\ all_data[i].key = tables[i].target_table
            /\ Len(all_data[i].value) > 0 =>
                 tables[i].target_table \in accepted_by_api

\* every table had rows and was accepted; the process exits with 0
C20_Witness ==
  /\ pc = "exit"
  /\ exit_code = 0
  /\ \A i \in 1..Len(all_data) : Len(all_data[i].value) > 0
  /\ accepted_by_api = {"rrc_clients", "acc_master", "acc_product"}

\* the kinds of value the encoder supports
SupportedTypes ==
  {"Decimal", "date", "datetime", "str", "int", "float", "bool", "NoneType"}

====
